---------------------------- MODULE Spec2Model ----------------------------
(***************************************************************************)
(* Model of src/src/App.tsx: the App component's generateDescription       *)
(* handler with its React state, the generateGeminiContent requester, and  *)
(* the pure formatDescription function.                                    *)
(*                                                                         *)
(* Spec       : the component as an event-driven state machine (clicks,    *)
(*              input changes, network completions, promise resumptions).  *)
(* LiveSpec   : Spec plus the fairness the JavaScript event loop gives.    *)
(* FormatSpec : formatDescription applied to every bounded raw text.       *)
(* ReformatSpec : formatDescription applied to a bounded Markdown text and *)
(*              again to the text rebuilt from the resulting blocks.       *)
(***************************************************************************)
EXTENDS Integers, Sequences, FiniteSets, TLC

VARIABLES productDetails, generatedDescription, loading, error, API_KEY,
          active, started, issued, done,
          text, blocks, reblocks, fpc

uiVars  == <<productDetails, generatedDescription, loading, error, API_KEY,
             active, started, issued, done>>
fmtVars == <<text, blocks, reblocks, fpc>>
vars    == <<productDetails, generatedDescription, loading, error, API_KEY,
             active, started, issued, done, text, blocks, reblocks, fpc>>

(***************************************************************************)
(* Bounds                                                                  *)
(***************************************************************************)
MaxGenerations == 3   \* clicks on the generate button explored per run
MaxLen == 5           \* tokens in a raw text given to formatDescription
MaxReformatLen == 7   \* tokens in a raw text that is formatted twice

(***************************************************************************)
(* JavaScript values: strings, numbers, null, undefined, with truthiness   *)
(***************************************************************************)
Str(s)    == [type |-> "string", s |-> s, n |-> 0]
Num(k)    == [type |-> "number", s |-> "", n |-> k]
Null      == [type |-> "null", s |-> "", n |-> 0]
Undefined == [type |-> "undefined", s |-> "", n |-> 0]

Truthy(v) ==
  CASE v.type = "string" -> v.s # ""
    [] v.type = "number" -> v.n # 0
    [] OTHER -> FALSE

(***************************************************************************)
(* Inputs                                                                  *)
(***************************************************************************)
Fields      == {"name", "features", "benefits", "targetAudience"}
FieldValues == {"", "chair"}
KeyValues   == {Undefined, Str(""), Str("KEY")}
Statuses    == {200, 201, 404, 500}
\* value found by data.candidates?.[0]?.content?.parts?.[0]?.text
TextValues  == {Undefined, Str(""), Str("Desc A"), Str("Desc B"), Num(42)}
Bodies      == {[json |-> "invalid", text |-> Undefined],
                [json |-> "null", text |-> Undefined]}
               \cup {[json |-> "object", text |-> t] : t \in TextValues}
Responses   == [status : Statuses, body : Bodies]
NoResponse  == [status |-> 0, body |-> [json |-> "none", text |-> Undefined]]

EmptyDetails == [f \in Fields |-> ""]
\* record of the invocation of generateDescription that completed last
NoneDone == [n |-> 0, details |-> EmptyDetails, fetches |-> 0,
             resp |-> NoResponse, outcome |-> "none", val |-> Undefined,
             before |-> "none"]

(***************************************************************************)
(* generateDescription, lines 34-72                                        *)
(***************************************************************************)
IsValidIgnoringAudience(d) ==
  ~(d.name = "" \/ d.features = "" \/ d.benefits = "")

\* lines 39-40: every field is truthy
IsValid(d) ==
  ~(d.name = "" \/ d.features = "" \/ d.benefits = "" \/ d.targetAudience = "")

ButtonNeverDisabled == FALSE

\* line 214: disabled={loading}
ButtonDisabled == loading

MissingKeyOnlyUndefined == API_KEY = Undefined

\* line 292: !API_KEY
MissingKey == ~Truthy(API_KEY)

CatchKeepsDescription(msg) ==
  [error |-> msg, generatedDescription |-> generatedDescription]

\* lines 65-68: setError(message); setGeneratedDescription('')
Catch(msg) == [error |-> msg, generatedDescription |-> Str("")]

FinallyLoadingKept == loading

\* lines 69-71: setLoading(false)
FinallyLoading == FALSE

\* response.ok of the fetch Response
Ok(status) == status >= 200 /\ status <= 299

GeminiCatchRetry(i, msg) ==
  IF i.fetches < 2
  THEN [i EXCEPT !.pc = "fetch", !.fetches = @ + 1, !.resp = NoResponse]
  ELSE [i EXCEPT !.pc = "rejected", !.val = msg]

\* lines 348-351: log and rethrow; the promise of generateGeminiContent rejects
GeminiCatch(i, msg) == [i EXCEPT !.pc = "rejected", !.val = msg]

\* lines 335-338: the message of a non-ok response
TransportMessage(resp) ==
  LET errorData == resp.body.json = "object"   \* .json().catch(() => null), truthy
  IN  Str(IF errorData THEN "API call failed, with details" ELSE "API call failed")

\* lines 341-347: read the body of an ok response
ReadOkBody(i) ==
  LET b == i.resp.body IN
  CASE b.json = "invalid" -> GeminiCatch(i, Str("Unexpected token in JSON"))
    [] b.json = "null"    -> GeminiCatch(i, Str("Cannot read properties of null"))
    [] OTHER ->
         IF ~Truthy(b.text)
         THEN GeminiCatch(i, Str("Invalid response format from API"))
         ELSE [i EXCEPT !.pc = "resolved", !.val = b.text]

\* a promise of generateGeminiContent has settled and line 58 has yet to resume
Settled(i) == i.pc \in {"rejected", "resolved"}
NoMicrotask == \A i \in active : ~Settled(i)

Finish(i, outcome) ==
  [n |-> done.n + 1, details |-> i.details, fetches |-> i.fetches,
   resp |-> i.resp, outcome |-> outcome, val |-> i.val,
   before |-> done.outcome]

\* lines 24-32
handleInputChange(f, v) ==
  /\ NoMicrotask
  /\ productDetails' = [productDetails EXCEPT ![f] = v]
  /\ UNCHANGED <<generatedDescription, loading, error, API_KEY, active,
                 started, issued, done>>
  /\ UNCHANGED fmtVars

\* lines 34-42, 65-71: a click whose input fails validation
ClickInvalid ==
  /\ ~ButtonDisabled
  /\ NoMicrotask
  /\ started < MaxGenerations
  /\ ~IsValid(productDetails)
  /\ started' = started + 1
  /\ error' = Catch(Str("Please fill in all fields")).error
  /\ generatedDescription' =
       Catch(Str("Please fill in all fields")).generatedDescription
  /\ loading' = FinallyLoading
  /\ done' = [n |-> done.n + 1, details |-> productDetails, fetches |-> 0,
              resp |-> NoResponse, outcome |-> "failure",
              val |-> Str("Please fill in all fields"),
              before |-> done.outcome]
  /\ UNCHANGED <<productDetails, API_KEY, active, issued>>
  /\ UNCHANGED fmtVars

\* lines 34-58, 291-295: a click with valid input, up to the await of line 58
ClickValid ==
  /\ ~ButtonDisabled
  /\ NoMicrotask
  /\ started < MaxGenerations
  /\ IsValid(productDetails)
  /\ started' = started + 1
  /\ error' = Null
  /\ loading' = TRUE
  /\ IF MissingKey
     THEN /\ active' = active \cup
               {[id |-> started + 1, pc |-> "rejected",
                 details |-> productDetails, fetches |-> 0,
                 resp |-> NoResponse,
                 val |-> Str("API key is not configured")]}
          /\ issued' = issued
     ELSE /\ active' = active \cup
               {[id |-> started + 1, pc |-> "fetch",
                 details |-> productDetails, fetches |-> 1,
                 resp |-> NoResponse, val |-> Undefined]}
          /\ issued' = issued + 1
  /\ UNCHANGED <<productDetails, generatedDescription, API_KEY, done>>
  /\ UNCHANGED fmtVars

\* the next state of an invocation inside generateGeminiContent
Advance(i, j) ==
  /\ active' = (active \ {i}) \cup {j}
  /\ issued' = issued + (j.fetches - i.fetches)
  /\ UNCHANGED <<productDetails, generatedDescription, loading, error,
                 API_KEY, started, done>>
  /\ UNCHANGED fmtVars

\* line 295 resolves with a response; line 333 picks the branch
FetchResolve(i, resp) ==
  /\ i \in active /\ i.pc = "fetch"
  /\ NoMicrotask
  /\ Advance(i, [i EXCEPT !.resp = resp,
                          !.pc = IF ~Ok(resp.status) THEN "errJson" ELSE "okJson"])

\* line 295 rejects (network error); lines 348-351
FetchReject(i) ==
  /\ i \in active /\ i.pc = "fetch"
  /\ NoMicrotask
  /\ Advance(i, GeminiCatch(i, Str("Failed to fetch")))

\* lines 334-338, 348-351: the body of a non-ok response has been read
ErrBodyRead(i) ==
  /\ i \in active /\ i.pc = "errJson"
  /\ NoMicrotask
  /\ Advance(i, GeminiCatch(i, TransportMessage(i.resp)))

\* lines 341-351: the body of an ok response has been read
OkBodyRead(i) ==
  /\ i \in active /\ i.pc = "okJson"
  /\ NoMicrotask
  /\ Advance(i, ReadOkBody(i))

\* lines 58-71: generateDescription resumes after the await
Resume(i) ==
  /\ i \in active /\ Settled(i)
  /\ active' = active \ {i}
  /\ IF i.pc = "resolved" /\ Truthy(i.val)
     THEN /\ generatedDescription' = i.val
          /\ error' = error
          /\ done' = Finish(i, "success")
     ELSE LET msg == IF i.pc = "resolved"
                     THEN Str("No description was generated. Please try again.")
                     ELSE i.val
          IN  /\ error' = Catch(msg).error
              /\ generatedDescription' = Catch(msg).generatedDescription
              /\ done' = Finish(i, "failure")
  /\ loading' = FinallyLoading
  /\ UNCHANGED <<productDetails, API_KEY, started, issued>>
  /\ UNCHANGED fmtVars

FmtIdle ==
  /\ text = <<>> /\ blocks = <<>> /\ reblocks = <<>> /\ fpc = "off"

Init ==
  /\ productDetails = EmptyDetails
  /\ generatedDescription = Str("")
  /\ loading = FALSE
  /\ error = Null
  /\ API_KEY \in KeyValues
  /\ active = {}
  /\ started = 0
  /\ issued = 0
  /\ done = NoneDone
  /\ FmtIdle

Next ==
  \/ \E f \in Fields, v \in FieldValues : handleInputChange(f, v)
  \/ ClickInvalid
  \/ ClickValid
  \/ \E i \in active, r \in Responses : FetchResolve(i, r)
  \/ \E i \in active : FetchReject(i)
  \/ \E i \in active : ErrBodyRead(i)
  \/ \E i \in active : OkBodyRead(i)
  \/ \E i \in active : Resume(i)

Spec == Init /\ [][Next]_vars

\* the fairness of the event loop: a settled promise resumes its awaiter, and
\* the outstanding fetch and body reads complete (no abort or timeout path)
Completion ==
  \/ \E i \in active, r \in Responses : FetchResolve(i, r)
  \/ \E i \in active : FetchReject(i)
  \/ \E i \in active : ErrBodyRead(i)
  \/ \E i \in active : OkBodyRead(i)
  \/ \E i \in active : Resume(i)

LiveSpec == Init /\ [][Next]_vars /\ WF_vars(Completion)

(***************************************************************************)
(* formatDescription, lines 84-125.  A text is a sequence of tokens.       *)
(***************************************************************************)
Hash    == "#"
Space   == " "
Newline == "\n"
Return  == "\r"
Bold    == "**"
Plain   == "a"
Emoji   == "U+1F389"
Alphabet == {Hash, Space, Newline, Return, Bold, Plain, Emoji}

\* the tokens of the texts that are formatted twice
MarkdownAlphabet == {Hash, Space, Newline, Bold, Plain}

\* the texts of at most k tokens
SeqsUpTo(k, alphabet) == UNION {[1..j -> alphabet] : j \in 0..k}

\* \s of a JavaScript regular expression, and the whitespace of trim()
IsWhitespace(c) == c \in {Space, Newline, Return}

Drop(t, k) == SubSeq(t, k + 1, Len(t))

\* line 86: replace(/\r\n/g, '\n')
RECURSIVE NormalizeLineEndings(_)
NormalizeLineEndings(t) ==
  IF t = <<>> THEN <<>>
  ELSE IF Len(t) >= 2 /\ t[1] = Return /\ t[2] = Newline
       THEN <<Newline>> \o NormalizeLineEndings(Drop(t, 2))
       ELSE <<t[1]>> \o NormalizeLineEndings(Drop(t, 1))

RECURSIVE TrimStart(_)
TrimStart(t) ==
  IF t # <<>> /\ IsWhitespace(t[1]) THEN TrimStart(Drop(t, 1)) ELSE t

RECURSIVE TrimEnd(_)
TrimEnd(t) ==
  IF t # <<>> /\ IsWhitespace(t[Len(t)])
  THEN TrimEnd(SubSeq(t, 1, Len(t) - 1)) ELSE t

\* String.prototype.trim
Trim(t) == TrimEnd(TrimStart(t))

\* the number of leading tokens of t that belong to the set c
RECURSIVE Run(_, _)
Run(t, c) ==
  IF t # <<>> /\ t[1] \in c THEN 1 + Run(Drop(t, 1), c) ELSE 0

\* line 89: split(/\n\n+/); a text without a match is the only section
RECURSIVE SplitSections(_)
SplitSections(t) ==
  LET starts == {i \in 1..(Len(t) - 1) : t[i] = Newline /\ t[i + 1] = Newline}
  IN  IF starts = {} THEN <<t>>
      ELSE LET i == CHOOSE j \in starts : \A k \in starts : j <= k
               rest == Drop(t, i - 1)
           IN  <<SubSeq(t, 1, i - 1)>>
                 \o SplitSections(Drop(rest, Run(rest, {Newline})))

\* line 93: replace(/\*\*/g, '')
StripBold(section) == SelectSeq(section, LAMBDA c : c # Bold)

\* line 96: cleanText.trim().match(/^#+\s/)
IsHeading(cleanText) ==
  LET t == Trim(cleanText)
      hashes == Run(t, {Hash})
  IN  hashes >= 1 /\ Len(t) > hashes /\ IsWhitespace(t[hashes + 1])

KeepHashes(cleanText) == cleanText

\* line 99: cleanText.replace(/^#+\s*/, '')
StripHashes(cleanText) ==
  LET hashes == Run(cleanText, {Hash})
      rest == Drop(cleanText, hashes)
  IN  IF hashes = 0 THEN cleanText
      ELSE Drop(rest, Run(rest, {Space, Newline, Return}))

\* line 105: /[\u{1F300}-\u{1F9FF}]/u.test(cleanText)
HasEmoji(cleanText) == \E i \in 1..Len(cleanText) : cleanText[i] = Emoji

\* line 113: cleanText.split('\n')
RECURSIVE SplitLines(_)
SplitLines(t) ==
  LET breaks == {i \in 1..Len(t) : t[i] = Newline}
  IN  IF breaks = {} THEN <<t>>
      ELSE LET i == CHOOSE j \in breaks : \A k \in breaks : j <= k
           IN  <<SubSeq(t, 1, i - 1)>> \o SplitLines(Drop(t, i))

Heading(t) ==
  [kind |-> "Heading", text |-> t, lines |-> <<>>, emphasized |-> FALSE]
Paragraph(ls, e) ==
  [kind |-> "Paragraph", text |-> <<>>, lines |-> ls, emphasized |-> e]

\* lines 91-124: the element a section is rendered as
FormatSection(section) ==
  LET cleanText == StripBold(section)
  IN  IF IsHeading(cleanText)
      THEN Heading(StripHashes(cleanText))
      ELSE Paragraph(SplitLines(cleanText), HasEmoji(cleanText))

\* lines 86-89
Sections(t) == SplitSections(Trim(NormalizeLineEndings(t)))

\* lines 84-125
formatDescription(t) ==
  LET sections == Sections(t)
  IN  [i \in 1..Len(sections) |-> FormatSection(sections[i])]

(***************************************************************************)
(* The text a block sequence stands for: a heading is prefixed with "# ",  *)
(* the lines of a paragraph are joined with line breaks, and blocks are    *)
(* separated by a blank line.                                              *)
(***************************************************************************)
RECURSIVE JoinWith(_, _)
JoinWith(parts, sep) ==
  IF parts = <<>> THEN <<>>
  ELSE IF Len(parts) = 1 THEN parts[1]
  ELSE parts[1] \o sep \o JoinWith(Drop(parts, 1), sep)

BlockText(b) ==
  IF b.kind = "Heading" THEN <<Hash, Space>> \o b.text
  ELSE JoinWith(b.lines, <<Newline>>)

Reconstruct(bs) ==
  JoinWith([i \in 1..Len(bs) |-> BlockText(bs[i])], <<Newline, Newline>>)

UiIdle ==
  /\ productDetails = EmptyDetails
  /\ generatedDescription = Str("")
  /\ loading = FALSE
  /\ error = Null
  /\ API_KEY = Str("KEY")
  /\ active = {}
  /\ started = 0
  /\ issued = 0
  /\ done = NoneDone

FormatInit ==
  /\ UiIdle
  /\ text \in SeqsUpTo(MaxLen, Alphabet)
  /\ blocks = <<>>
  /\ reblocks = <<>>
  /\ fpc = "input"

\* the render of lines 227-276 formats the raw text
Format ==
  /\ fpc = "input"
  /\ blocks' = formatDescription(text)
  /\ fpc' = "formatted"
  /\ UNCHANGED <<text, reblocks>>
  /\ UNCHANGED uiVars

FormatNext == Format

FormatSpec == FormatInit /\ [][FormatNext]_vars

ReformatInit ==
  /\ UiIdle
  /\ text \in SeqsUpTo(MaxReformatLen, MarkdownAlphabet)
  /\ blocks = <<>>
  /\ reblocks = <<>>
  /\ fpc = "input"

\* the text rebuilt from the blocks is formatted again
Reformat ==
  /\ fpc = "formatted"
  /\ reblocks' = formatDescription(Reconstruct(blocks))
  /\ fpc' = "reformatted"
  /\ UNCHANGED <<text, blocks>>
  /\ UNCHANGED uiVars

ReformatNext == Format \/ Reformat

ReformatSpec == ReformatInit /\ [][ReformatNext]_vars

(***************************************************************************)
(* Properties of generateDescription and generateGeminiContent             *)
(***************************************************************************)
AnyFieldEmpty(d) == \E f \in Fields : d[f] = ""
KeyAbsent == API_KEY = Undefined \/ API_KEY = Str("")
Quiescent == active = {} /\ done.n = started /\ done.n > 0
ValidationMessage == Str("Please fill in all fields")
CredentialMessage == Str("API key is not configured")
NonEmptyText(b) == b.json = "object" /\ b.text.type = "string" /\ b.text.s # ""
Status2xx(r) == r.status \in 200..299

\* C1: an invocation of generateDescription in which some field of
\* productDetails is the empty string ends in the validation failure (the
\* error message is set) and makes no call of fetch: it never reaches
\* generateGeminiContent and its record shows zero network calls.
C1_EmptyFieldFailsWithoutNetwork ==
  /\ \A i \in active : ~AnyFieldEmpty(i.details)
  /\ (done.n > 0 /\ AnyFieldEmpty(done.details)) =>
       /\ done.outcome = "failure"
       /\ done.val = ValidationMessage
       /\ done.fetches = 0
       /\ done.resp = NoResponse
       /\ (Quiescent => error = ValidationMessage /\ ~loading)

C1_Witness ==
  /\ done.n > 0 /\ AnyFieldEmpty(done.details)
  /\ done.details.name # "" /\ done.details.features # ""
  /\ error = ValidationMessage

\* C2: under every interleaving of clicks and network completions at most one
\* generation request is in flight, and while the busy flag is set no step
\* starts a generation or issues a network call.
C2_AtMostOneInFlight ==
  /\ [](Cardinality(active) <= 1)
  /\ [][loading => (started' = started /\ issued' = issued)]_vars

C2_Witness ==
  /\ loading
  /\ \E i \in active : i.pc = "fetch" /\ i.id = 2

\* C3: when the last attempt has failed the error message is set and the
\* generated description is empty; when it has succeeded after an earlier
\* attempt the error is null and the generated description is the text the
\* service returned.
C3_FailureClearsSuccessResets ==
  Quiescent =>
    IF done.outcome = "failure"
    THEN /\ error.type = "string" /\ error.s # ""
         /\ error = done.val
         /\ generatedDescription = Str("")
    ELSE /\ done.outcome = "success"
         /\ error = Null
         /\ generatedDescription = done.resp.body.text

C3_Witness ==
  /\ Quiescent
  /\ done.outcome = "success" /\ done.before = "failure"
  /\ error = Null /\ generatedDescription = Str("Desc B")

\* C4: an invocation with valid input and a configured key issues exactly one
\* call of fetch, whatever the call's outcome; a failed call is not retried.
C4_ExactlyOneCall ==
  ~KeyAbsent =>
    /\ \A i \in active : i.fetches = 1
    /\ (done.n > 0 /\ ~AnyFieldEmpty(done.details)) => done.fetches = 1
    /\ issued <= started

C4_Witness ==
  /\ ~KeyAbsent /\ done.n > 0 /\ ~AnyFieldEmpty(done.details)
  /\ done.outcome = "failure" /\ done.resp.status = 500 /\ done.fetches = 1

\* C5 (as stated): a response with a non-2xx status, or whose envelope lacks a
\* non-empty text at candidates[0].content.parts[0].text, ends the request in a
\* failure, and nothing is stored as the generated description.
C5_BadResponseFails ==
  (done.n > 0 /\ done.resp # NoResponse
     /\ (~Status2xx(done.resp) \/ ~NonEmptyText(done.resp.body))) =>
    /\ done.outcome = "failure"
    /\ (Quiescent => generatedDescription = Str(""))

\* C6 (as stated): while no key is configured every generation attempt fails
\* with the missing-credential error and no network call is made.
C6_EveryAttemptFailsWithCredentialError ==
  KeyAbsent =>
    /\ issued = 0
    /\ done.n > 0 => (done.outcome = "failure" /\ done.val = CredentialMessage)

\* C6 (amended): while no key is configured no network call is made, every
\* attempt whose four fields are non-empty fails with the missing-credential
\* error, and an attempt with an empty field fails with the validation error.
C6_NoKeyNoCall ==
  KeyAbsent =>
    /\ issued = 0
    /\ \A i \in active : i.fetches = 0 /\ i.pc = "rejected"
                         /\ i.val = CredentialMessage
    /\ done.n > 0 =>
         /\ done.outcome = "failure" /\ done.fetches = 0
         /\ done.val = IF AnyFieldEmpty(done.details)
                       THEN ValidationMessage ELSE CredentialMessage

C6_Witness ==
  /\ API_KEY = Str("") /\ Quiescent
  /\ ~AnyFieldEmpty(done.details)
  /\ error = CredentialMessage /\ issued = 0

OnlyWhitespace(t) == \A i \in 1..Len(t) : t[i] \in {Space, Newline, Return}
Has(t, c) == \E i \in 1..Len(t) : t[i] = c
\* the alphabet of hash, space, newline, double asterisk and plain character
InClaimedAlphabet(t) ==
  \A i \in 1..Len(t) : t[i] \in {Hash, Space, Newline, Bold, Plain}

\* C7 (as stated): the empty string, and every text that is empty after
\* line-ending normalization and trimming, is formatted to zero blocks.
C7_EmptyTextNoBlocks ==
  (fpc # "input" /\ OnlyWhitespace(text)) => Len(blocks) = 0

\* a cleaned section that, after any leading whitespace, starts with one or
\* more "#" followed by whitespace
StartsWithMarker(c) ==
  LET t == Drop(c, Run(c, {Space, Newline, Return}))
      hashes == Run(t, {Hash})
  IN  hashes >= 1 /\ Len(t) > hashes /\ t[hashes + 1] \in {Space, Newline, Return}

\* the cleaned section without its leading hash run and the whitespace
\* around the run
WithoutMarker(c) ==
  LET t == Drop(c, Run(c, {Space, Newline, Return}))
      u == Drop(t, Run(t, {Hash}))
  IN  Drop(u, Run(u, {Space, Newline, Return}))

\* C9 (as stated): a section is a Heading exactly when, after the removal of
\* the bold markers, it starts with one or more "#" followed by whitespace,
\* sections with whitespace before the "#" included, and the heading text is
\* the cleaned section without the hash run and the whitespace after it.
C9_HeadingClassification ==
  fpc # "input" =>
    \A i \in 1..Len(blocks) :
      LET c == SelectSeq(Sections(text)[i], LAMBDA x : x # Bold)
      IN  /\ (blocks[i].kind = "Heading") <=> StartsWithMarker(c)
          /\ blocks[i].kind = "Heading" => blocks[i].text = WithoutMarker(c)

SameText(a, b) == a.text = b.text
SameTextAfterLeadingWhitespace(a, b) ==
  Drop(a.text, Run(a.text, {Space, Newline, Return}))
    = Drop(b.text, Run(b.text, {Space, Newline, Return}))

SameStructure(as, bs, HeadingEq(_, _)) ==
  /\ Len(as) = Len(bs)
  /\ \A i \in 1..Len(as) :
       /\ as[i].kind = bs[i].kind
       /\ as[i].lines = bs[i].lines
       /\ HeadingEq(as[i], bs[i])

\* C8 (as stated): for every raw text over the alphabet of hash, space,
\* newline, double asterisk and plain character, formatting the text rebuilt
\* from the blocks gives blocks equal in number, kinds, heading texts and
\* paragraph lines.
C8_ReformatSameBlocks ==
  (fpc = "reformatted" /\ InClaimedAlphabet(text)) =>
    SameStructure(blocks, reblocks, SameText)

\* C8 (amended): for every raw text over hash, space, newline and plain
\* character (no double asterisk), formatting the text rebuilt from the blocks
\* gives blocks equal in number, kinds and paragraph lines, with heading texts
\* equal once their leading whitespace is removed.
C8_ReformatSameBlocksWithoutBold ==
  (fpc = "reformatted" /\ InClaimedAlphabet(text) /\ ~Has(text, Bold)) =>
    SameStructure(blocks, reblocks, SameTextAfterLeadingWhitespace)

C8_Witness ==
  /\ fpc = "reformatted"
  /\ text = <<Plain, Newline, Newline, Space, Hash, Space, Plain>>
  /\ blocks[2] = Heading(<<Space, Hash, Space, Plain>>)
  /\ reblocks[2] = Heading(<<Hash, Space, Plain>>)

=============================================================================
